---- MODULE Spec2Model ----
(***************************************************************************)
(* A model of recipe_cookbook.py: the RecipeCookbook class (prompt         *)
(* building, the generation call, saving an artifact) and the interactive  *)
(* session loop run_interactive_mode.                                      *)
(*                                                                         *)
(* Python str values are TLA+ strings; a Python dict is a record whose     *)
(* DOMAIN is the dict's key set; a Python list is a sequence.  The console *)
(* is modelled by what input() returns or raises at each input-reading     *)
(* point; the external service by what generate_content returns or raises; *)
(* the filesystem by a function from file names to file contents; the      *)
(* wall clock by a tick counter, TicksPerSecond ticks to the second.       *)
(***************************************************************************)
EXTENDS Integers, Sequences, FiniteSets, TLC

\* ------------------------------------------------------------------ bounds
\* The longest ingredient list the modelled user enters.
MaxIngredients == 2
\* The last tick of the modelled wall clock.
MaxNow == 1
\* The last tick of the clock when the methods are called directly.
ApiMaxNow == 4
\* Clock ticks per second: datetime.now() has sub-second precision, the file
\* name of an artifact only second precision.
TicksPerSecond == 2

\* The width of the artifact's separator line ("="*50).
SeparatorWidth == 50

VARIABLES
    pc,                    \* the session's position: the point it blocks at
    collecting,            \* get_ingredients_from_user's local list `ingredients`
    dietary,               \* get_additional_preferences' local `dietary`
    ingredients,           \* run_interactive_mode's `ingredients`
    dietary_restrictions,  \* run_interactive_mode's `dietary_restrictions`
    cuisine_type,          \* run_interactive_mode's `cuisine_type`
    recipe_data,           \* run_interactive_mode's `recipe_data` (a dict)
    files,                 \* the generated_recipes folder: file name -> content
    now,                   \* the wall clock, in ticks
    line,                  \* what the last input() call returned, untrimmed
    exc,                   \* the exception the last step raised to the loop, "" if none
    calls,                 \* the prompts sent to the service in this iteration
    saved,                 \* what the last save_recipe call returned
    out                    \* the report lines the last step printed

vars == <<pc, collecting, dietary, ingredients, dietary_restrictions,
          cuisine_type, recipe_data, files, now, line, exc, calls,
          saved, out>>

\* ------------------------------------------------------------ str methods
IsSpace(c) == c \in {" ", "\t", "\n"}

RECURSIVE LStrip(_)
LStrip(s) ==
    IF s # "" /\ IsSpace(SubSeq(s, 1, 1)) THEN LStrip(SubSeq(s, 2, Len(s))) ELSE s

RECURSIVE RStrip(_)
RStrip(s) ==
    IF s # "" /\ IsSpace(SubSeq(s, Len(s), Len(s)))
    THEN RStrip(SubSeq(s, 1, Len(s) - 1))
    ELSE s

\* str.strip()
Strip(s) == RStrip(LStrip(s))

LowerChar(c) ==
    CASE c = "Y" -> "y"
      [] c = "E" -> "e"
      [] c = "S" -> "s"
      [] c = "N" -> "n"
      [] c = "O" -> "o"
      [] OTHER -> c

RECURSIVE Lower(_)
\* str.lower(), on the letters the modelled answers use
Lower(s) ==
    IF s = "" THEN "" ELSE LowerChar(SubSeq(s, 1, 1)) \o Lower(SubSeq(s, 2, Len(s)))

RECURSIVE Join(_, _)
\* sep.join(items)
Join(sep, items) ==
    IF items = <<>> THEN ""
    ELSE IF Len(items) = 1 THEN items[1]
    ELSE items[1] \o sep \o Join(sep, Tail(items))

RECURSIVE Repeat(_, _)
\* s * n
Repeat(s, n) == IF n <= 0 THEN "" ELSE s \o Repeat(s, n - 1)

Digit(d) == SubSeq("0123456789", d + 1, d + 1)

RECURSIVE Digits(_)
\* the decimal digits of a natural number
Digits(n) == IF n < 10 THEN Digit(n) ELSE Digits(n \div 10) \o Digit(n % 10)

\* datetime.now().isoformat(): the instant with its sub-second fraction, which
\* isoformat leaves out when the fraction is zero.  The calendar fields are
\* abstracted to the count of whole seconds.
IsoFormat(t) ==
    Digits(t \div TicksPerSecond)
        \o (IF t % TicksPerSecond = 0 THEN "" ELSE "." \o Digits(t % TicksPerSecond))

\* datetime.now().strftime("%Y%m%d_%H%M%S"): the instant cut to whole seconds.
StrfTime(t) == Digits(t \div TicksPerSecond)

\* ----------------------------------------------------------- PromptBuilder
PromptHead == "\n        Create a detailed recipe using the following ingredients: "

PromptDietary ==
    "\n        \n        Additional preferences:\n        - Dietary restrictions: "

PromptCuisine == "\n        - Cuisine type: "

PromptTail ==
    "\n        \n        Please provide:\n        1. Recipe name"
    \o "\n        2. Cooking time (prep + cook)\n        3. Servings"
    \o "\n        4. Complete ingredients list (including quantities and any additional ingredients needed)"
    \o "\n        5. Step-by-step cooking instructions"
    \o "\n        6. Difficulty level (Easy/Medium/Hard)"
    \o "\n        7. Nutritional highlights\n        8. Tips for best results"
    \o "\n        \n        Make the recipe practical and delicious. If some common pantry staples (salt, pepper, oil, etc.) are needed but not listed, include them in the ingredients with quantities."
    \o "\n        \n        Format the response in a clear, organized manner.\n        "

\* A mutant of generate_recipe_prompt: the ingredients joined in reverse order.
RECURSIVE Reverse(_)
Reverse(s) == IF s = <<>> THEN <<>> ELSE Append(Reverse(Tail(s)), Head(s))

generate_recipe_prompt_reversed(ings, d, c) ==
    PromptHead \o Join(", ", Reverse(ings))
        \o PromptDietary \o (IF d # "" THEN d ELSE "None")
        \o PromptCuisine \o (IF c # "" THEN c ELSE "Any")
        \o PromptTail

generate_recipe_prompt(ings, d, c) ==
    PromptHead \o Join(", ", ings)
        \o PromptDietary \o (IF d # "" THEN d ELSE "None")
        \o PromptCuisine \o (IF c # "" THEN c ELSE "Any")
        \o PromptTail

\* -------------------------------------------------------- GenerationClient
\* What model.generate_content(prompt) followed by response.text does: it
\* returns a text, possibly empty, or raises an Exception whose str() is the
\* payload, possibly empty.
Texts == {"", "Soup"}
Messages == {"", "quota"}
ServiceBehaviours ==
    [kind : {"returns"}, payload : Texts] \cup [kind : {"raises"}, payload : Messages]

\* generate_recipe's result for one behaviour of the service, at instant t.
generate_recipe(ings, d, c, svc, t) ==
    IF svc.kind = "returns"
    THEN [timestamp |-> IsoFormat(t), input_ingredients |-> ings,
          dietary_restrictions |-> d, cuisine_type |-> c,
          generated_recipe |-> svc.payload, status |-> "success"]
    ELSE [timestamp |-> IsoFormat(t), input_ingredients |-> ings,
          error |-> svc.payload, status |-> "error"]

\* What generate_recipe prints: the error report of its except clause.
GenerateReport(svc) ==
    IF svc.kind = "raises" THEN <<"Error generating recipe: " \o svc.payload>> ELSE <<>>

\* ------------------------------------------------------------ SessionStore
\* recipe_data.get(key) is truthy: the key is present and its text non-empty.
Truthy(r, key) == key \in DOMAIN r /\ r[key] # ""

ArtifactHeader(r) ==
    "=== AI Generated Recipe ===\n\n"
        \o "Generated on: " \o r.timestamp \o "\n"
        \o "Input ingredients: " \o Join(", ", r.input_ingredients) \o "\n"
        \o (IF Truthy(r, "dietary_restrictions")
            THEN "Dietary restrictions: " \o r.dietary_restrictions \o "\n" ELSE "")
        \o (IF Truthy(r, "cuisine_type")
            THEN "Cuisine type: " \o r.cuisine_type \o "\n" ELSE "")
        \o "\n" \o Repeat("=", SeparatorWidth) \o "\n\n"

ArtifactBody(r) ==
    IF r.status = "success" THEN r.generated_recipe ELSE "Error: " \o r.error

\* The document save_recipe writes for recipe_data r.
ArtifactText(r) == ArtifactHeader(r) \o ArtifactBody(r)

FileName(t) == "recipe_" \o StrfTime(t) \o ".txt"

\* How the filesystem treats one save: the file is written; open() fails and
\* nothing changes; or open() succeeds, truncating the file, and the write
\* fails before the buffered document reaches the file.
IoOutcomes == {"ok", "open_error", "write_error"}

Put(fs, name, text) == (name :> text) @@ fs

\* save_recipe at instant t: the folder afterwards, the value returned and the
\* line reported.
save_recipe(fs, r, t, io) ==
    CASE io = "ok" ->
            [files |-> Put(fs, FileName(t), ArtifactText(r)),
             ret |-> FileName(t),
             out |-> <<"Recipe saved to: generated_recipes/" \o FileName(t)>>]
      [] io = "write_error" ->
            [files |-> Put(fs, FileName(t), ""),
             ret |-> "",
             out |-> <<"Error saving recipe: write failed">>]
      [] OTHER ->
            [files |-> fs,
             ret |-> "",
             out |-> <<"Error saving recipe: open failed">>]

\* display_recipe's body line.
DisplayBody(r) ==
    IF r.status = "success" THEN r.generated_recipe ELSE "Error: " \o r.error

\* ------------------------------------------------------------------ console
\* What input() does at an input-reading point: it returns a line, or the user
\* interrupts (KeyboardInterrupt), or standard input is at its end (EOFError).
IngredientLines == {"", " ", " egg ", "oil"}
DietaryLines == {"", " vegan"}
CuisineLines == {"", "Thai "}
SaveAnswerLines == {"y", " Yes", "n", ""}
ContinueAnswerLines == {"y", "Y", "yes", " YES ", "n", "", "ye"}
InputExceptions == {"KeyboardInterrupt", "EOFError"}

Yes == {"y", "yes"}

\* An unbound local, and the dict no iteration has assigned yet.
NoRecipe == [status |-> "unbound"]

InputPoints ==
    {"CollectingIngredients", "CollectingDietary", "CollectingCuisine",
     "SavePrompt", "AskContinue"}

\* str(e) of the exception.
ExcText(e) == IF e = "EOFError" THEN "EOF when reading a line" ELSE ""

\* The answer tests of run_interactive_mode: input(...).lower().strip() in ['y', 'yes'].
SaveConfirmed(l) == Strip(Lower(l)) \in Yes

\* A mutant of the continue test: the answer is not lowered.
Continues_case_sensitive(l) == Strip(l) \in Yes

Continues(l) == Strip(Lower(l)) \in Yes

\* One pass of get_ingredients_from_user's loop over list col with line l read:
\* whether the function returns, the list afterwards, the line reported.
\* A mutant: a blank line ends the collection whatever has been collected.
CollectStep_blank_always_ends(col, l) ==
    IF Strip(l) = ""
    THEN [done |-> TRUE, list |-> col, out |-> <<>>]
    ELSE [done |-> FALSE, list |-> Append(col, Strip(l)), out |-> <<>>]

CollectStep(col, l) ==
    IF Strip(l) = ""
    THEN IF col # <<>>
         THEN [done |-> TRUE, list |-> col, out |-> <<>>]
         ELSE [done |-> FALSE, list |-> col,
               out |-> <<"Please enter at least one ingredient.">>]
    ELSE [done |-> FALSE, list |-> Append(col, Strip(l)), out |-> <<>>]

\* The except clauses of run_interactive_mode's loop, for an exception of type
\* e with text msg: where the session goes and what it reports.
\* Mutants: every exception ends the loop; every exception continues it.
LoopHandler_always_breaks(e, msg) ==
    [pc |-> "Terminated",
     out |-> <<"Thanks for using AI Recipe Cookbook!", "Happy cooking!">>]

LoopHandler_always_continues(e, msg) ==
    [pc |-> "CollectingIngredients", out |-> <<"Unexpected error: " \o msg>>]

LoopHandler(e, msg) ==
    IF e = "KeyboardInterrupt"
    THEN [pc |-> "Terminated",
          out |-> <<"Thanks for using AI Recipe Cookbook!", "Happy cooking!">>]
    ELSE [pc |-> "CollectingIngredients", out |-> <<"Unexpected error: " \o msg>>]

\* The service answers, or the user interrupts the blocking call.
ServiceOutcomes == ServiceBehaviours \cup [kind : {"interrupt"}, payload : {""}]

\* Whether what the service call raises escapes generate_recipe's
\* `except Exception`: a KeyboardInterrupt is no Exception.
\* A mutant: no try/except around the call.
Escapes_everything(svc) == svc.kind # "returns"

Escapes(svc) == svc.kind = "interrupt"

EscapingType(svc) == IF svc.kind = "interrupt" THEN "KeyboardInterrupt" ELSE "Exception"

\* The calls one generate_recipe makes to the service: the prompt sent and how
\* the service answered.  A mutant: a failed call is retried once.
GenerateCalls_retry(prompt, svc) ==
    IF svc.kind = "raises"
    THEN <<[prompt |-> prompt, kind |-> svc.kind, payload |-> svc.payload],
           [prompt |-> prompt, kind |-> svc.kind, payload |-> svc.payload]>>
    ELSE <<[prompt |-> prompt, kind |-> svc.kind, payload |-> svc.payload]>>

GenerateCalls(prompt, svc) ==
    <<[prompt |-> prompt, kind |-> svc.kind, payload |-> svc.payload]>>

\* Where the loop goes after display_recipe: the save prompt is issued only
\* for a success.  A mutant: it is issued for every result.
AfterDisplay_always_prompts(r) == "SavePrompt"

AfterDisplay(r) == IF r.status = "success" THEN "SavePrompt" ELSE "AskContinue"

\* -------------------------------------------------------------- the session
Init ==
    /\ pc = "CollectingIngredients"
    /\ collecting = <<>>
    /\ dietary = ""
    /\ ingredients = <<>>
    /\ dietary_restrictions = ""
    /\ cuisine_type = ""
    /\ recipe_data = NoRecipe
    /\ files = <<>>
    /\ now = 0
    /\ line = ""
    /\ exc = ""
    /\ calls = <<>>
    /\ saved = ""
    /\ out = <<>>

\* The locals of an iteration, and the record of its calls.  Each local is
\* assigned in an iteration before it is read there, so what an earlier
\* iteration left in it is never read: a new iteration starts with them
\* unbound, and they are gone when run_interactive_mode returns.
NewIteration ==
    /\ collecting' = <<>>
    /\ dietary' = ""
    /\ ingredients' = <<>>
    /\ dietary_restrictions' = ""
    /\ cuisine_type' = ""
    /\ recipe_data' = NoRecipe
    /\ calls' = <<>>
    /\ saved' = ""

\* An exception of type e reaches the loop's except clauses.
Raise(e, msg) ==
    /\ exc' = e
    /\ pc' = LoopHandler(e, msg).pc
    /\ out' = LoopHandler(e, msg).out
    /\ NewIteration
    /\ UNCHANGED files

\* input() raises at an input-reading point.
InputRaises ==
    \E e \in InputExceptions :
        /\ UNCHANGED line
        /\ Raise(e, ExcText(e))

\* get_ingredients_from_user: one input("Ingredient: ").
ReadIngredient ==
    /\ pc = "CollectingIngredients"
    /\ UNCHANGED now
    /\ \/ \E l \in IngredientLines :
            LET step == CollectStep(collecting, l) IN
            /\ Len(step.list) <= MaxIngredients
            /\ line' = l
            /\ exc' = ""
            /\ out' = step.out
            /\ IF step.done
               THEN /\ ingredients' = step.list
                    /\ collecting' = <<>>
                    /\ pc' = "CollectingDietary"
               ELSE /\ collecting' = step.list
                    /\ pc' = "CollectingIngredients"
                    /\ UNCHANGED ingredients
            /\ UNCHANGED <<dietary, dietary_restrictions, cuisine_type,
                           recipe_data, files, calls, saved>>
       \/ InputRaises

\* get_additional_preferences: the dietary line.
ReadDietary ==
    /\ pc = "CollectingDietary"
    /\ UNCHANGED now
    /\ \/ \E l \in DietaryLines :
            /\ line' = l
            /\ exc' = ""
            /\ out' = <<>>
            /\ dietary' = Strip(l)
            /\ pc' = "CollectingCuisine"
            /\ UNCHANGED <<collecting, ingredients, dietary_restrictions,
                           cuisine_type, recipe_data, files, calls, saved>>
       \/ InputRaises

\* get_additional_preferences: the cuisine line, and the return of both.
ReadCuisine ==
    /\ pc = "CollectingCuisine"
    /\ UNCHANGED now
    /\ \/ \E l \in CuisineLines :
            /\ line' = l
            /\ exc' = ""
            /\ out' = <<>>
            /\ dietary_restrictions' = dietary
            /\ cuisine_type' = Strip(l)
            /\ dietary' = ""
            /\ pc' = "Generating"
            /\ UNCHANGED <<collecting, ingredients, recipe_data, files, calls,
                           saved>>
       \/ InputRaises

\* generate_recipe(ingredients, dietary_restrictions, cuisine_type).
Generate ==
    /\ pc = "Generating"
    /\ UNCHANGED <<now, line>>
    /\ \E svc \in ServiceOutcomes :
        LET prompt == generate_recipe_prompt(ingredients, dietary_restrictions,
                                             cuisine_type)
            made == calls \o GenerateCalls(prompt, svc)
        IN  IF Escapes(svc)
            THEN Raise(EscapingType(svc), svc.payload)
            ELSE /\ calls' = made
                 /\ recipe_data' = generate_recipe(ingredients, dietary_restrictions,
                                                   cuisine_type, svc, now)
                 /\ exc' = ""
                 /\ out' = GenerateReport(svc)
                 /\ pc' = "Displaying"
                 /\ UNCHANGED <<collecting, dietary, ingredients,
                                dietary_restrictions, cuisine_type, files, saved>>

\* display_recipe(recipe_data), then the test of the result's status.
Display ==
    /\ pc = "Displaying"
    /\ out' = <<DisplayBody(recipe_data)>>
    /\ exc' = ""
    /\ pc' = AfterDisplay(recipe_data)
    /\ UNCHANGED <<collecting, dietary, ingredients, dietary_restrictions,
                   cuisine_type, recipe_data, files, now, line, calls,
                   saved>>

\* The save prompt, and save_recipe(recipe_data) on y/yes.
ReadSave ==
    /\ pc = "SavePrompt"
    /\ UNCHANGED now
    /\ \/ \E l \in SaveAnswerLines :
            /\ line' = l
            /\ exc' = ""
            /\ pc' = "AskContinue"
            /\ IF SaveConfirmed(l)
               THEN \E io \in IoOutcomes :
                        LET s == save_recipe(files, recipe_data, now, io) IN
                        /\ files' = s.files
                        /\ saved' = s.ret
                        /\ out' = s.out
               ELSE /\ out' = <<>>
                    /\ UNCHANGED <<files, saved>>
            /\ UNCHANGED <<collecting, dietary, ingredients, dietary_restrictions,
                           cuisine_type, recipe_data, calls>>
       \/ InputRaises

\* The continue prompt.
ReadContinue ==
    /\ pc = "AskContinue"
    /\ UNCHANGED now
    /\ \/ \E l \in ContinueAnswerLines :
            /\ line' = l
            /\ exc' = ""
            /\ UNCHANGED files
            /\ IF Continues(l)
               THEN /\ pc' = "CollectingIngredients"
                    /\ out' = <<>>
                    /\ NewIteration
               ELSE /\ pc' = "Terminated"
                    /\ out' = <<"Happy cooking!">>
                    /\ NewIteration
       \/ InputRaises

\* The wall clock advances, up to tick `last`.
TickTo(last) ==
    /\ now < last
    /\ now' = now + 1
    /\ UNCHANGED <<pc, collecting, dietary, ingredients, dietary_restrictions,
                   cuisine_type, recipe_data, files, line, exc, calls,
                   saved, out>>

Tick == TickTo(MaxNow)

Next ==
    \/ ReadIngredient
    \/ ReadDietary
    \/ ReadCuisine
    \/ Generate
    \/ Display
    \/ ReadSave
    \/ ReadContinue
    \/ Tick

Spec == Init /\ [][Next]_vars

\* ------------------------------------------------- the methods, called directly
\* generate_recipe and save_recipe called by a client of the class, once each,
\* on arguments drawn from bounded sets.
ApiIngredients == {"egg", "oil"}
ApiIngredientLists == UNION {[1..n -> ApiIngredients] : n \in 1..MaxIngredients}
ApiPreferences == {"", "vegan"}
ApiCuisines == {"", "Thai"}

InitApi ==
    /\ pc = "ApiReady"
    /\ collecting = <<>>
    /\ dietary = ""
    /\ ingredients \in ApiIngredientLists
    /\ dietary_restrictions \in ApiPreferences
    /\ cuisine_type \in ApiCuisines
    /\ recipe_data = NoRecipe
    /\ files = <<>>
    /\ now = 0
    /\ line = ""
    /\ exc = ""
    /\ calls = <<>>
    /\ saved = ""
    /\ out = <<>>

\* recipe_data = generate_recipe(ingredients, dietary_restrictions, cuisine_type)
ApiGenerate ==
    /\ pc = "ApiReady"
    /\ pc' = "ApiGenerated"
    /\ \E svc \in ServiceBehaviours :
        LET prompt == generate_recipe_prompt(ingredients, dietary_restrictions,
                                             cuisine_type)
        IN  /\ calls' = calls \o GenerateCalls(prompt, svc)
            /\ IF Escapes(svc)
               THEN /\ exc' = EscapingType(svc)
                    /\ out' = <<>>
                    /\ UNCHANGED recipe_data
               ELSE /\ exc' = ""
                    /\ out' = GenerateReport(svc)
                    /\ recipe_data' = generate_recipe(ingredients,
                                          dietary_restrictions, cuisine_type, svc, now)
    /\ UNCHANGED <<collecting, dietary, ingredients, dietary_restrictions,
                   cuisine_type, files, now, line, saved>>

\* save_recipe(recipe_data)
ApiSave ==
    /\ pc = "ApiGenerated"
    /\ recipe_data # NoRecipe
    /\ pc' = "ApiSaved"
    /\ \E io \in IoOutcomes :
        LET s == save_recipe(files, recipe_data, now, io) IN
        /\ files' = s.files
        /\ saved' = s.ret
        /\ out' = s.out
    /\ exc' = ""
    /\ UNCHANGED <<collecting, dietary, ingredients, dietary_restrictions,
                   cuisine_type, recipe_data, now, line, calls>>

ApiTick == TickTo(ApiMaxNow)

NextApi ==
    \/ ApiGenerate
    \/ ApiSave
    \/ ApiTick

SpecApi == InitApi /\ [][NextApi]_vars

\* ------------------------------------------------------------------ claims
\* The number of places where sub occurs in s.
Occurrences(sub, s) ==
    Cardinality({i \in 1..(Len(s) - Len(sub) + 1) : SubSeq(s, i, i + Len(sub) - 1) = sub})

StartsWith(s, prefix) == Len(s) >= Len(prefix) /\ SubSeq(s, 1, Len(prefix)) = prefix

\* The last step reported a save_recipe call: its success or its failure.
SaveReported(o) ==
    /\ o # <<>>
    /\ \/ StartsWith(o[1], "Recipe saved to: ")
       \/ StartsWith(o[1], "Error saving recipe: ")

\* The call generate_recipe made, once it has made one.
TheCall == calls[1]

\* C1, as stated: generate_recipe never raises to its caller, and returns a
\* Success carrying a non-empty text or a Failure carrying a non-empty message.
C1_NonEmptyOutcome ==
    pc = "ApiGenerated" =>
        /\ exc = ""
        /\ \/ recipe_data.status = "success" /\ recipe_data.generated_recipe # ""
           \/ recipe_data.status = "error" /\ recipe_data.error # ""

\* C1, amended: generate_recipe never raises to its caller whatever the service
\* returns or raises; the result is a Success carrying the text the service
\* returned, verbatim, when it returned one, and a Failure carrying the text of
\* the error when it raised one; either text may be empty.
C1_GenerateContainsErrors ==
    pc = "ApiGenerated" =>
        /\ exc = ""
        /\ Len(calls) = 1
        /\ TheCall.kind = "returns" =>
              /\ recipe_data.status = "success"
              /\ recipe_data.generated_recipe = TheCall.payload
        /\ TheCall.kind = "raises" =>
              /\ recipe_data.status = "error"
              /\ recipe_data.error = TheCall.payload

\* C1's case: the service raised an error with an empty message and the call
\* returned a Failure.
C1_Witness ==
    /\ pc = "ApiGenerated"
    /\ TheCall.kind = "raises"
    /\ TheCall.payload = ""
    /\ recipe_data.status = "error"

\* C2: save_recipe runs, and the folder changes, only in a step from the save
\* prompt of a success whose answer is y/yes; the save prompt is issued only
\* for a success, and after displaying a failure the session goes to the
\* continue prompt.
C2_PersistOnlyConfirmedSuccess ==
    /\ [](pc = "SavePrompt" => recipe_data.status = "success")
    /\ [][(files' # files \/ (now' = now /\ SaveReported(out')))
            => /\ pc = "SavePrompt"
               /\ recipe_data.status = "success"
               /\ exc' = ""
               /\ Strip(Lower(line')) \in {"y", "yes"}]_vars
    /\ [][(pc = "Displaying" /\ now' = now /\ recipe_data.status = "error")
            => (pc' = "AskContinue" /\ files' = files)]_vars

\* C2's case: a success was displayed, the user confirmed and the recipe was saved.
C2_Witness ==
    /\ pc = "AskContinue"
    /\ recipe_data.status = "success"
    /\ saved # ""
    /\ saved \in DOMAIN files

\* C3: an exception other than a user interrupt leaves the session at
\* CollectingIngredients, reported; the session terminates only by a user
\* interrupt or by an answer other than y/yes at the continue prompt.
C3_UnexpectedCaughtLoopContinues ==
    /\ [](exc \notin {"", "KeyboardInterrupt"}
            => /\ pc = "CollectingIngredients"
               /\ collecting = <<>>
               /\ out # <<>>
               /\ StartsWith(out[1], "Unexpected error: "))
    /\ [][(pc # "Terminated" /\ pc' = "Terminated")
            => \/ exc' = "KeyboardInterrupt"
               \/ /\ pc = "AskContinue"
                  /\ exc' = ""
                  /\ Strip(Lower(line')) \notin {"y", "yes"}]_vars

\* C3's case: standard input ended at the cuisine prompt of a session that had
\* already saved a recipe, and the session is collecting ingredients again.
C3_Witness ==
    /\ exc = "EOFError"
    /\ pc = "CollectingIngredients"
    /\ line = " vegan"
    /\ files # <<>>

\* C4: a user interrupt at an input-reading point ends the session in that
\* step, with no file written and no call issued by it, and a terminated
\* session reads no input, issues no call and writes no file.
C4_InterruptTerminates ==
    /\ [](exc = "KeyboardInterrupt" => pc = "Terminated")
    /\ [][(pc \in InputPoints /\ exc' = "KeyboardInterrupt")
            => /\ pc' = "Terminated"
               /\ files' = files
               /\ calls' = <<>>
               /\ line' = line]_vars
    /\ [][pc = "Terminated"
            => UNCHANGED <<pc, line, exc, calls, files, saved, out, recipe_data>>]_vars

\* C4's case: the user interrupted the cuisine prompt (the last line read is
\* the dietary line) and the session is terminated.
C4_Witness ==
    /\ exc = "KeyboardInterrupt"
    /\ pc = "Terminated"
    /\ line = " vegan"

CleanEntry(x) ==
    /\ x # ""
    /\ ~IsSpace(SubSeq(x, 1, 1))
    /\ ~IsSpace(SubSeq(x, Len(x), Len(x)))

\* C5: a blank line read while nothing is collected keeps the collection going
\* with nothing collected; a blank line read once something is collected ends
\* it and returns the list; any other line is appended, trimmed, at the end.
\* So the list returned, and the list of every generation call, is non-empty
\* and holds non-empty trimmed entries in the order of entry.
C5_CollectionEndsOnlyNonEmpty ==
    /\ [](/\ \A i \in 1..Len(collecting) : CleanEntry(collecting[i])
          /\ \A i \in 1..Len(ingredients) : CleanEntry(ingredients[i])
          /\ pc \in {"CollectingDietary", "CollectingCuisine", "Generating",
                     "Displaying", "SavePrompt", "AskContinue"}
                => ingredients # <<>>
          /\ calls # <<>>
                => /\ ingredients # <<>>
                   /\ StartsWith(TheCall.prompt,
                                 PromptHead \o Join(", ", ingredients) \o "\n"))
    /\ [][(pc = "CollectingIngredients" /\ now' = now /\ exc' = "")
            => IF line' \in {"", " "}
               THEN IF collecting = <<>>
                    THEN pc' = "CollectingIngredients" /\ collecting' = <<>>
                    ELSE pc' = "CollectingDietary" /\ ingredients' = collecting
               ELSE /\ pc' = "CollectingIngredients"
                    /\ collecting' = Append(collecting, Strip(line'))]_vars

\* C5's case: two ingredients were entered, the first with blanks around it,
\* and a whitespace-only line ended the collection.
C5_Witness ==
    /\ pc = "CollectingDietary"
    /\ line = " "
    /\ ingredients = <<"egg", "oil">>

\* C6: a save that returns a file name creates a new file and leaves every
\* file of the folder as it was.
C6_ArtifactsAppendOnly ==
    [][(now' = now /\ saved' # "" /\ SaveReported(out'))
            => /\ saved' \notin DOMAIN files
               /\ \A f \in DOMAIN files : f \in DOMAIN files' /\ files'[f] = files[f]]_vars

\* C7: at the continue prompt the answers y, Y, yes, YES (blanks around them
\* trimmed) start a new iteration, and every other answer terminates.
C7_ContinueAnswers ==
    [][(pc = "AskContinue" /\ now' = now /\ exc' = "")
            => IF line' \in {"y", "Y", "yes", " YES "}
               THEN pc' = "CollectingIngredients"
               ELSE pc' = "Terminated"]_vars

\* C7's case: the answer " YES " started a new iteration.
C7_Witness ==
    /\ pc = "CollectingIngredients"
    /\ exc = ""
    /\ line = " YES "

\* C8, as stated: the prompt contains every ingredient exactly once, the
\* ingredients joined by ", " in input order.
C8_EachIngredientOnce ==
    (pc = "ApiGenerated" /\ calls # <<>>) =>
        /\ Occurrences(Join(", ", ingredients), TheCall.prompt) >= 1
        /\ \A i \in 1..Len(ingredients) :
              Occurrences(ingredients[i], TheCall.prompt) = 1

\* C8, amended: the prompt holds the ingredients joined by ", " in input order
\* right after "using the following ingredients: ", so every ingredient occurs
\* in it at least once.
C8_IngredientsJoinedInOrder ==
    (pc = "ApiGenerated" /\ calls # <<>>) =>
        /\ StartsWith(TheCall.prompt,
              "\n        Create a detailed recipe using the following ingredients: "
              \o Join(", ", ingredients) \o "\n")
        /\ \A i \in 1..Len(ingredients) :
              Occurrences(ingredients[i], TheCall.prompt) >= 1

\* C8's case: the prompt of the list egg, oil, in which "oil" occurs a second
\* time, in the template's own text.
C8_Witness ==
    /\ pc = "ApiGenerated"
    /\ calls # <<>>
    /\ ingredients = <<"egg", "oil">>
    /\ Occurrences("egg, oil", TheCall.prompt) = 1
    /\ Occurrences("oil", TheCall.prompt) = 2

\* C9: an iteration has issued no call before Generating and exactly one after
\* it; the step from Generating goes to Displaying whether the call succeeded
\* or failed, unless the user interrupted the call.
C9_OneCallPerIteration ==
    /\ [](/\ Len(calls) <= 1
          /\ pc \in {"Displaying", "SavePrompt", "AskContinue"}
                => Len(calls) = 1 /\ recipe_data.status \in {"success", "error"}
          /\ pc \in {"CollectingIngredients", "CollectingDietary",
                     "CollectingCuisine", "Generating"} => calls = <<>>)
    /\ [][(pc = "Generating" /\ now' = now /\ exc' # "KeyboardInterrupt")
            => /\ pc' = "Displaying"
               /\ Len(calls') = 1]_vars

\* C9's case: the one call failed and the session is displaying the failure.
C9_Witness ==
    /\ pc = "Displaying"
    /\ recipe_data.status = "error"
    /\ Len(calls) = 1
    /\ TheCall.kind = "raises"

\* The artifact of section 6 for a generation at instant stamp with the given
\* ingredients and preferences, and the given body.
C10_Document(stamp, ings, d, c, body) ==
    "=== AI Generated Recipe ===\n\n"
        \o "Generated on: " \o stamp \o "\n"
        \o "Input ingredients: " \o Join(", ", ings) \o "\n"
        \o (IF d # "" THEN "Dietary restrictions: " \o d \o "\n" ELSE "")
        \o (IF c # "" THEN "Cuisine type: " \o c \o "\n" ELSE "")
        \o "\n==================================================\n\n"
        \o body

\* C10: the file save_recipe writes for a result of generate_recipe is the
\* fixed-format document of the ingredients and preferences given to that
\* generation, with the success text, or "Error: " and the message, as its body.
C10_ArtifactReflectsGeneration ==
    (pc = "ApiSaved" /\ saved # "") =>
        /\ saved \in DOMAIN files
        /\ files[saved] =
              C10_Document(recipe_data.timestamp, ingredients, dietary_restrictions,
                           cuisine_type,
                           IF TheCall.kind = "returns"
                           THEN TheCall.payload
                           ELSE "Error: " \o TheCall.payload)
====
